---- MODULE Spec2Model ----
(***************************************************************************)
(* The Montgomery-ladder family of scalar multipliers of pyecsca           *)
(* (pyecsca/ec/mult/ladder.py): LadderMultiplier, SimpleLadderMultiplier   *)
(* and DifferentialLadderMultiplier, with the trace scope each multiply    *)
(* call opens.                                                             *)
(*                                                                         *)
(* The curve group is the cyclic group of params.order elements.  A point  *)
(* is a record [v, z]: v is its affine class (the multiple of the group's  *)
(* generator it equals), z tells the raw representation apart: z = 1 is a  *)
(* normalised point, z = 2 a point as a formula leaves it.  Two points are *)
(* affine-equal when their v agree; raw equality compares v and z.         *)
(***************************************************************************)
EXTENDS Integers, Sequences, FiniteSets, TLC

\* Bounds of the model.
MaxOrder == 5
MaxScalar == 9
MaxPrime == 7
MaxRows == 17
MaxCols == 2

VARIABLES
    pc,           \* "new" | "ctor_error" | "idle" | "entered" | "loop"
    mult,         \* the constructed multiplier: kind, formulas, complete, short_circuit
    initialized,  \* ScalarMultiplier._initialized
    params,       \* ScalarMultiplier._params (the order of the domain parameters)
    point,        \* ScalarMultiplier._point
    ctxStack,     \* the trace scopes that are open, innermost last
    scalar,       \* the argument of the multiply call in progress, or of the last one
    p0, p1,       \* the running points of the ladder
    i,            \* the loop variable of range(top, -1, -1)
    ops,          \* the formulas this call invoked, in order
    bitsSeen,     \* the bit indices this call examined, in order
    opened,       \* the trace scopes this call opened
    recorded,     \* the results this call reported to its scope (action.exit)
    result,       \* the point this call returned
    outcome,      \* "none" | "returned" | "raised" | "ValueError"
    touched,      \* the points the formulas of this call produced, in order
    prev,         \* the call before this one, when it was made under the same binding
    rpa,          \* a curve and the RPA points computed for it
    gpu           \* a kernel launch over stacked samples

vars == <<pc, mult, initialized, params, point, ctxStack, scalar, p0, p1, i,
          ops, bitsSeen, opened, recorded, result, outcome, touched, prev, rpa, gpu>>

Kinds == {"LadderMultiplier", "SimpleLadderMultiplier", "DifferentialLadderMultiplier"}

----------------------------------------------------------------------------
\* Integers as Python sees them.

RECURSIVE Pow2(_)
Pow2(e) == IF e <= 0 THEN 1 ELSE 2 * Pow2(e - 1)

\* int.bit_length()
RECURSIVE bit_length(_)
bit_length(x) == IF x = 0 THEN 0 ELSE 1 + bit_length(x \div 2)

\* A test of the bit above the one asked for: scalar & (1 << (i + 1)) == 0.
BitIsZeroShifted(k, idx) == (k \div Pow2(idx + 1)) % 2 = 0

\* scalar & (1 << i) == 0
BitIsZero(k, idx) == (k \div Pow2(idx)) % 2 = 0

----------------------------------------------------------------------------
\* Points and formulas.

Pt(v, z) == [v |-> v, z |-> z]

\* curve.neutral, as the domain parameters give it
Neutral == Pt(0, 1)

\* what a formula returns on inputs it is not defined for
Garbage == Pt(-1, 0)

\* the marker of a formula call that raised
Raised == Pt(-2, 0)

IsPoint(p) == p.v >= 0

AffineEq(a, b) == IsPoint(a) /\ IsPoint(b) /\ a.v = b.v

\* copy(point)
Copy(p) == p

\* k * P in the group of n elements
Times(k, p, n) == (k * p.v) % n

\* An incomplete formula is undefined on the neutral point.
Undefined(m, a) == ~m.fcomplete /\ a.v = 0

\* AdditionFormula
add(m, n, a, b) ==
    IF ~IsPoint(a) \/ ~IsPoint(b) THEN Garbage
    ELSE IF Undefined(m, a) \/ Undefined(m, b) \/ (~m.fcomplete /\ a.v = b.v) THEN Raised
    ELSE Pt((a.v + b.v) % n, 2)

\* DoublingFormula
dbl(m, n, a) ==
    IF ~IsPoint(a) THEN Garbage
    ELSE IF Undefined(m, a) THEN Raised
    ELSE Pt((2 * a.v) % n, 2)

\* The inputs of a differential formula differ by the start point.
DiffIs(n, start, a, b) ==
    \/ (b.v - a.v) % n = start.v % n
    \/ (a.v - b.v) % n = start.v % n

\* DifferentialAdditionFormula
dadd(m, n, start, a, b) ==
    IF ~IsPoint(a) \/ ~IsPoint(b) THEN Garbage
    ELSE IF Undefined(m, a) \/ Undefined(m, b) THEN Raised
    ELSE IF ~DiffIs(n, start, a, b) THEN Garbage
    ELSE Pt((a.v + b.v) % n, 2)

\* LadderFormula: (2 * to_dbl, to_dbl + to_add)
ladd(m, n, start, to_dbl, to_add) ==
    IF ~IsPoint(to_dbl) \/ ~IsPoint(to_add) THEN <<Garbage, Garbage>>
    ELSE IF Undefined(m, to_dbl) \/ Undefined(m, to_add) THEN <<Raised, Raised>>
    ELSE IF ~DiffIs(n, start, to_dbl, to_add) THEN <<Pt((2 * to_dbl.v) % n, 2), Garbage>>
    ELSE <<Pt((2 * to_dbl.v) % n, 2), Pt((to_dbl.v + to_add.v) % n, 2)>>

\* ScalingFormula: the same affine point, normalised
scl(m, n, a) == IF ~IsPoint(a) THEN Garbage ELSE Pt(a.v, 1)

----------------------------------------------------------------------------
\* The multipliers.

\* the value of a variable that holds no point
None == Pt(-3, 0)

Scope == "ScalarMultiplicationAction"

Outer == "MultipleContext"

\* The formulas a constructor can be given: the required ones, and any of the
\* optional ones.
FormulaSets(kind) ==
    IF kind = "LadderMultiplier"
    THEN {{"ladd"} \cup o : o \in SUBSET {"dbl", "scl"}}
    ELSE IF kind = "SimpleLadderMultiplier"
    THEN {{"add", "dbl"} \cup o : o \in SUBSET {"scl"}}
    ELSE {{"dadd", "dbl"} \cup o : o \in SUBSET {"scl"}}

\* A check that joins its two conditions with "and" where the code has "or".
CtorRaisesOnlyIfBoth(kind, formulas, complete, short_circuit) ==
    /\ kind = "LadderMultiplier"
    /\ (~complete /\ short_circuit)
    /\ "dbl" \notin formulas

\* LadderMultiplier.__init__: if (not complete or short_circuit) and dbl is None
CtorRaises(kind, formulas, complete, short_circuit) ==
    /\ kind = "LadderMultiplier"
    /\ (~complete \/ short_circuit)
    /\ "dbl" \notin formulas

\* A multiply that lacks the check of _initialized.
NotInitializedUnchecked(init) == FALSE

\* if not self._initialized: raise ValueError
NotInitialized(init) == ~init

\* A multiply that lacks the exit for scalar 0.
ZeroExitNever(m, k) == FALSE

\* A zero exit taken only by a multiplier built with short_circuit=True.
ZeroExitIfShortCircuit(m, k) == k = 0 /\ m.short_circuit

\* if scalar == 0: return action.exit(copy(neutral))
ZeroExit(m, k) == k = 0

\* A complete-mode top one below the order's top bit.
TopCompleteOneLess(m, n, k) ==
    IF m.complete THEN bit_length(n) - 2
    ELSE IF m.kind = "LadderMultiplier" THEN bit_length(k) - 2
    ELSE bit_length(k) - 1

\* An incomplete LadderMultiplier whose loop starts at the scalar's top bit,
\* which the entry has consumed already.
TopLadderFromTopBit(m, n, k) ==
    IF m.complete THEN bit_length(n) - 1
    ELSE bit_length(k) - 1

\* top, the index of the first bit the loop examines
Top(m, n, k) ==
    IF m.complete THEN bit_length(n) - 1
    ELSE IF m.kind = "LadderMultiplier" THEN bit_length(k) - 2
    ELSE bit_length(k) - 1

\* An entry that starts every ladder from (neutral, q), the incomplete
\* LadderMultiplier too, whose loop starts below the top bit.
EntryAlwaysNeutral(m, n, q) ==
    [p0 |-> Copy(Neutral), p1 |-> Copy(q),
     ops |-> IF m.kind = "LadderMultiplier" /\ ~m.complete THEN <<"dbl">> ELSE <<>>]

\* An entry of the incomplete LadderMultiplier that does not double q: (q, q).
EntryLadderNoDouble(m, n, q) ==
    IF m.kind = "LadderMultiplier" /\ ~m.complete
    THEN [p0 |-> Copy(q), p1 |-> Copy(q), ops |-> <<"dbl">>]
    ELSE [p0 |-> Copy(Neutral), p1 |-> Copy(q), ops |-> <<>>]

\* The running points at loop entry, with the formulas computing them invoked.
Entry(m, n, q) ==
    IF m.kind = "LadderMultiplier" /\ ~m.complete
    THEN [p0 |-> Copy(q), p1 |-> dbl(m, n, q), ops |-> <<"dbl">>]
    ELSE [p0 |-> Copy(Neutral), p1 |-> Copy(q), ops |-> <<>>]

\* One iteration of LadderMultiplier's loop.
LadderIter(m, n, q, k, idx, a0, a1) ==
    IF BitIsZero(k, idx)
    THEN LET r == ladd(m, n, q, a0, a1)
         IN  [p0 |-> r[1], p1 |-> r[2], ops |-> <<"ladd">>, ok |-> r[1] # Raised]
    ELSE LET r == ladd(m, n, q, a1, a0)
         IN  [p0 |-> r[2], p1 |-> r[1], ops |-> <<"ladd">>, ok |-> r[1] # Raised]

\* An iteration whose bit-1 branch doubles p0 where the code doubles p1.
SimpleIterDoublesP0(m, n, q, k, idx, a0, a1) ==
    LET s == add(m, n, a0, a1)
        d == dbl(m, n, a0)
    IN  IF s = Raised THEN [p0 |-> a0, p1 |-> a1, ops |-> <<"add">>, ok |-> FALSE]
        ELSE IF BitIsZero(k, idx)
        THEN [p0 |-> d, p1 |-> s, ops |-> <<"add", "dbl">>, ok |-> d # Raised]
        ELSE [p0 |-> s, p1 |-> d, ops |-> <<"add", "dbl">>, ok |-> d # Raised]

\* One iteration of SimpleLadderMultiplier's loop.  A formula that raises ends
\* the iteration where it is.
SimpleIter(m, n, q, k, idx, a0, a1) ==
    IF BitIsZero(k, idx)
    THEN LET s == add(m, n, a0, a1)
             d == dbl(m, n, a0)
         IN  IF s = Raised THEN [p0 |-> a0, p1 |-> a1, ops |-> <<"add">>, ok |-> FALSE]
             ELSE [p0 |-> d, p1 |-> s, ops |-> <<"add", "dbl">>, ok |-> d # Raised]
    ELSE LET s == add(m, n, a0, a1)
             d == dbl(m, n, a1)
         IN  IF s = Raised THEN [p0 |-> a0, p1 |-> a1, ops |-> <<"add">>, ok |-> FALSE]
             ELSE [p0 |-> s, p1 |-> d, ops |-> <<"add", "dbl">>, ok |-> d # Raised]

\* An iteration that doubles before it adds when the bit is 1.
DiffIterDoublesFirst(m, n, q, k, idx, a0, a1) ==
    IF BitIsZero(k, idx)
    THEN LET s == dadd(m, n, q, a0, a1)
             d == dbl(m, n, a0)
         IN  IF s = Raised THEN [p0 |-> a0, p1 |-> a1, ops |-> <<"dadd">>, ok |-> FALSE]
             ELSE [p0 |-> d, p1 |-> s, ops |-> <<"dadd", "dbl">>, ok |-> d # Raised]
    ELSE LET d == dbl(m, n, a1)
             s == dadd(m, n, q, a0, a1)
         IN  IF d = Raised THEN [p0 |-> a0, p1 |-> a1, ops |-> <<"dbl">>, ok |-> FALSE]
             ELSE [p0 |-> s, p1 |-> d, ops |-> <<"dbl", "dadd">>, ok |-> s # Raised]

\* One iteration of DifferentialLadderMultiplier's loop.
DiffIter(m, n, q, k, idx, a0, a1) ==
    IF BitIsZero(k, idx)
    THEN LET s == dadd(m, n, q, a0, a1)
             d == dbl(m, n, a0)
         IN  IF s = Raised THEN [p0 |-> a0, p1 |-> a1, ops |-> <<"dadd">>, ok |-> FALSE]
             ELSE [p0 |-> d, p1 |-> s, ops |-> <<"dadd", "dbl">>, ok |-> d # Raised]
    ELSE LET s == dadd(m, n, q, a0, a1)
             d == dbl(m, n, a1)
         IN  IF s = Raised THEN [p0 |-> a0, p1 |-> a1, ops |-> <<"dadd">>, ok |-> FALSE]
             ELSE [p0 |-> s, p1 |-> d, ops |-> <<"dadd", "dbl">>, ok |-> d # Raised]

Iter(m, n, q, k, idx, a0, a1) ==
    IF m.kind = "LadderMultiplier" THEN LadderIter(m, n, q, k, idx, a0, a1)
    ELSE IF m.kind = "SimpleLadderMultiplier" THEN SimpleIter(m, n, q, k, idx, a0, a1)
    ELSE DiffIter(m, n, q, k, idx, a0, a1)

\* range(top, 0, -1): a loop that stops above index 0.
LoopGoesOnAboveZero(idx) == idx > 0

\* for i in range(top, -1, -1): the loop goes on while i >= 0
LoopGoesOn(idx) == idx >= 0

\* for i in range(top, -1, -1): the index after idx
NextIndex(idx) == idx - 1

\* A scaling step that calls the doubling helper: p0 = self._dbl(p0).
ScaledDoubles(m, n, a) ==
    IF "scl" \in m.formulas
    THEN [p |-> dbl(m, n, a), ops |-> <<"scl">>]
    ELSE [p |-> a, ops |-> <<>>]

\* if "scl" in self.formulas: p0 = self._scl(p0)
Scaled(m, n, a) ==
    IF "scl" \in m.formulas
    THEN [p |-> scl(m, n, a), ops |-> <<"scl">>]
    ELSE [p |-> a, ops |-> <<>>]

\* Action.__exit__: the scope is closed, the one around it is current again.
CloseScope(stack) == SubSeq(stack, 1, Len(stack) - 1)

\* A scope closed on return only: an exception leaves it open.
LeaveWithLeaksOnRaise(stack, how) ==
    IF how = "raise" THEN stack ELSE CloseScope(stack)

\* with ScalarMultiplicationAction(...) as action: the block is left by a
\* return or by an exception (how), and the scope is closed on both.
LeaveWith(stack, how) == CloseScope(stack)

\* The loop from index idx on, as a function: the final p0, or Raised.
RECURSIVE LoopResult(_, _, _, _, _, _, _)
LoopResult(m, n, q, k, idx, a0, a1) ==
    IF ~LoopGoesOn(idx) THEN a0
    ELSE LET r == Iter(m, n, q, k, idx, a0, a1)
         IN  IF ~r.ok THEN Raised
             ELSE LoopResult(m, n, q, k, NextIndex(idx), r.p0, r.p1)

\* multiply(scalar) of an initialised multiplier, as a function: the point
\* returned, or Raised.
MultiplyResult(m, n, q, k) ==
    IF ZeroExit(m, k) THEN Copy(Neutral)
    ELSE LET e == Entry(m, n, q)
         IN  IF e.p1 = Raised THEN Raised
             ELSE LET r == LoopResult(m, n, q, k, Top(m, n, k), e.p0, e.p1)
                  IN  IF r = Raised THEN Raised ELSE Scaled(m, n, r).p

\* The points the loop produces from index idx on, the scaled result last.
RECURSIVE LoopTouched(_, _, _, _, _, _, _)
LoopTouched(m, n, q, k, idx, a0, a1) ==
    IF ~LoopGoesOn(idx)
    THEN LET s == Scaled(m, n, a0)
         IN  IF s.ops = <<>> THEN <<>> ELSE <<s.p>>
    ELSE LET r == Iter(m, n, q, k, idx, a0, a1)
         IN  IF ~r.ok THEN <<>>
             ELSE <<r.p0, r.p1>> \o LoopTouched(m, n, q, k, NextIndex(idx), r.p0, r.p1)

\* The points a traced run of multiply(k) on point q records: what the
\* distinguisher's simulation of a candidate sees.
MultiplyTouched(m, n, q, k) ==
    IF ZeroExit(m, k) THEN <<>>
    ELSE LET e == Entry(m, n, q)
         IN  IF e.p1 = Raised THEN <<>>
             ELSE (IF e.ops = <<>> THEN <<>> ELSE <<e.p1>>)
                    \o LoopTouched(m, n, q, k, Top(m, n, k), e.p0, e.p1)

\* P.X == 0 or P.Y == 0: the neutral point (0 : 1 : 0), or the point of the
\* curve with a zero coordinate, the class r.
HasZeroCoordinate(pt, r) == pt.v = 0 \/ pt.v = r

\* any(map(lambda P: P.X == 0 or P.Y == 0, ctx.points.keys()))
Verdict(points, r) == \E j \in 1..Len(points) : HasZeroCoordinate(points[j], r)

\* The candidates: every multiplier that can be constructed from the formulas
\* the real one is built from, with its short_circuit flag.
Candidates(real) ==
    {[kind |-> t[1], formulas |-> t[2], complete |-> t[3],
      short_circuit |-> real.short_circuit, fcomplete |-> real.fcomplete] :
        t \in {u \in UNION {{<<kd, f, cm>> : f \in FormulaSets(kd), cm \in BOOLEAN} :
                                 kd \in Kinds} :
                  ~CtorRaises(u[1], u[2], u[3], real.short_circuit)}}

\* rpa_distinguish: the candidates whose predicted verdict is the oracle's, the
\* verdict of the real multiplier's run, for every scalar checked.
Distinguish(cands, real, n, q, r) ==
    {c \in cands : \A k \in 0..MaxScalar :
        Verdict(MultiplyTouched(c, n, q, k), r) = Verdict(MultiplyTouched(real, n, q, k), r)}

NoMult == [kind |-> "none", formulas |-> {}, complete |-> FALSE,
           short_circuit |-> FALSE, fcomplete |-> FALSE]

NoParams == [order |-> 0]

\* A multiply that keeps its result as the bound point: self._point = p0.
PointAfterMultiplyRebinds(pt, res) == res

\* multiply assigns neither self._point nor self._params: the bound point after
\* a call that returned res is the bound point before it.
PointAfterMultiply(pt, res) == pt

NoPrev == [order |-> 0, point |-> None, scalar |-> 0, outcome |-> "none",
           result |-> None, ops |-> <<>>, recorded |-> <<>>, touched |-> <<>>]

NoRpa == [stage |-> "none"]

NoGpu == [stage |-> "none"]

----------------------------------------------------------------------------
\* The state machine.

Init ==
    /\ pc = "new"
    /\ mult = NoMult
    /\ initialized = FALSE
    /\ params = NoParams
    /\ point = None
    /\ ctxStack = <<>>
    /\ scalar = 0
    /\ p0 = None
    /\ p1 = None
    /\ i = 0
    /\ ops = <<>>
    /\ bitsSeen = <<>>
    /\ opened = 0
    /\ recorded = <<>>
    /\ result = None
    /\ outcome = "none"
    /\ touched = <<>>
    /\ prev = NoPrev
    /\ rpa = NoRpa
    /\ gpu = NoGpu

\* What a call has observed is forgotten when the next one starts.
FreshCall(k) ==
    /\ scalar' = k
    /\ p0' = None
    /\ p1' = None
    /\ i' = 0
    /\ ops' = <<>>
    /\ bitsSeen' = <<>>
    /\ recorded' = <<>>
    /\ result' = None
    /\ touched' = <<>>

\* LadderMultiplier(...), SimpleLadderMultiplier(...), DifferentialLadderMultiplier(...)
Construct ==
    /\ pc = "new"
    /\ \E kind \in Kinds, complete \in BOOLEAN, short_circuit \in BOOLEAN,
          fcomplete \in BOOLEAN :
         \E formulas \in FormulaSets(kind) :
            /\ mult' = [kind |-> kind, formulas |-> formulas,
                        complete |-> complete, short_circuit |-> short_circuit,
                        fcomplete |-> fcomplete]
            /\ IF CtorRaises(kind, formulas, complete, short_circuit)
               THEN /\ pc' = "ctor_error"
                    /\ outcome' = "ValueError"
               ELSE /\ pc' = "idle"
                    /\ outcome' = outcome
    /\ UNCHANGED <<initialized, params, point, ctxStack, scalar, p0, p1, i, ops,
                   bitsSeen, opened, recorded, result, touched>>

\* init(params, point)
InitMult ==
    /\ pc = "idle"
    /\ \E n \in 1..MaxOrder : \E v \in 0..(n - 1) :
         /\ params' = [order |-> n]
         /\ point' = Pt(v, 1)
    /\ initialized' = TRUE
    /\ FreshCall(0)
    /\ opened' = 0
    /\ outcome' = "none"
    /\ UNCHANGED <<pc, mult, ctxStack>>

\* with local(MultipleContext()) as ctx:
EnterLocal ==
    /\ pc = "idle"
    /\ ctxStack = <<>>
    /\ ctxStack' = <<Outer>>
    /\ UNCHANGED <<pc, mult, initialized, params, point, scalar, p0, p1, i, ops,
                   bitsSeen, opened, recorded, result, outcome, touched>>

ExitLocal ==
    /\ pc = "idle"
    /\ ctxStack = <<Outer>>
    /\ ctxStack' = <<>>
    /\ UNCHANGED <<pc, mult, initialized, params, point, scalar, p0, p1, i, ops,
                   bitsSeen, opened, recorded, result, outcome, touched>>

\* multiply(scalar), to where the with block is entered
Multiply ==
    /\ pc = "idle"
    /\ \E k \in 0..MaxScalar : FreshCall(k)
    /\ IF NotInitialized(initialized)
       THEN /\ outcome' = "ValueError"
            /\ opened' = 0
            /\ UNCHANGED <<pc, ctxStack>>
       ELSE /\ outcome' = "none"
            /\ opened' = 1
            /\ ctxStack' = Append(ctxStack, Scope)
            /\ pc' = "entered"
    /\ UNCHANGED <<mult, initialized, params, point>>

\* The with block up to the loop: the exit for scalar 0, or the running points.
Enter ==
    /\ pc = "entered"
    /\ IF ZeroExit(mult, scalar)
       THEN /\ recorded' = Append(recorded, Copy(Neutral))
            /\ result' = Copy(Neutral)
            /\ outcome' = "returned"
            /\ ctxStack' = LeaveWith(ctxStack, "return")
            /\ pc' = "idle"
            /\ UNCHANGED <<p0, p1, i, ops, touched>>
       ELSE LET e == Entry(mult, params.order, point)
            IN  /\ ops' = ops \o e.ops
                /\ IF e.p1 = Raised
                   THEN /\ outcome' = "raised"
                        /\ ctxStack' = LeaveWith(ctxStack, "raise")
                        /\ pc' = "idle"
                        /\ UNCHANGED <<p0, p1, i, touched>>
                   ELSE /\ p0' = e.p0
                        /\ p1' = e.p1
                        /\ i' = Top(mult, params.order, scalar)
                        /\ touched' = IF e.ops = <<>> THEN touched
                                       ELSE Append(touched, e.p1)
                        /\ pc' = "loop"
                        /\ UNCHANGED <<outcome, ctxStack>>
                /\ UNCHANGED <<recorded, result>>
    /\ UNCHANGED <<mult, initialized, params, point, scalar, bitsSeen, opened>>

\* One iteration of the loop.
LoopStep ==
    /\ pc = "loop"
    /\ LoopGoesOn(i)
    /\ LET r == Iter(mult, params.order, point, scalar, i, p0, p1)
       IN  /\ bitsSeen' = Append(bitsSeen, i)
           /\ ops' = ops \o r.ops
           /\ IF r.ok
              THEN /\ p0' = r.p0
                   /\ p1' = r.p1
                   /\ i' = NextIndex(i)
                   /\ touched' = touched \o <<r.p0, r.p1>>
                   /\ UNCHANGED <<pc, outcome, ctxStack>>
              ELSE /\ outcome' = "raised"
                   /\ ctxStack' = LeaveWith(ctxStack, "raise")
                   /\ pc' = "idle"
                   /\ UNCHANGED <<p0, p1, i, touched>>
    /\ UNCHANGED <<mult, initialized, params, point, scalar, opened, recorded, result>>

\* After the loop: the optional scaling, and return action.exit(p0).
Finish ==
    /\ pc = "loop"
    /\ ~LoopGoesOn(i)
    /\ LET s == Scaled(mult, params.order, p0)
       IN  /\ ops' = ops \o s.ops
           /\ p0' = s.p
           /\ recorded' = Append(recorded, s.p)
           /\ result' = s.p
           /\ touched' = IF s.ops = <<>> THEN touched ELSE Append(touched, s.p)
           /\ point' = PointAfterMultiply(point, s.p)
    /\ outcome' = "returned"
    /\ ctxStack' = LeaveWith(ctxStack, "return")
    /\ pc' = "idle"
    /\ UNCHANGED <<mult, initialized, params, scalar, p1, i, bitsSeen, opened>>

Next ==
    \/ Construct /\ UNCHANGED <<prev, rpa, gpu>>
    \/ InitMult /\ UNCHANGED <<prev, rpa, gpu>>
    \/ EnterLocal /\ UNCHANGED <<prev, rpa, gpu>>
    \/ ExitLocal /\ UNCHANGED <<prev, rpa, gpu>>
    \/ Multiply /\ UNCHANGED <<prev, rpa, gpu>>
    \/ Enter /\ UNCHANGED <<prev, rpa, gpu>>
    \/ LoopStep /\ UNCHANGED <<prev, rpa, gpu>>
    \/ Finish /\ UNCHANGED <<prev, rpa, gpu>>

Spec == Init /\ [][Next]_vars

\* The same program, with the call before the current one remembered.  A call
\* is remembered while the multiplier is bound to the parameters and the point
\* it was made with.
Remember ==
    IF pc = "idle" /\ outcome \in {"returned", "raised"}
    THEN [order |-> params.order, point |-> point, scalar |-> scalar,
          outcome |-> outcome, result |-> result, ops |-> ops,
          recorded |-> recorded, touched |-> touched]
    ELSE prev

NextDet ==
    \/ Construct /\ UNCHANGED <<prev, rpa, gpu>>
    \/ /\ InitMult
       /\ prev' = IF Remember.order = params'.order /\ Remember.point = point'
                  THEN Remember ELSE NoPrev
       /\ UNCHANGED <<rpa, gpu>>
    \/ EnterLocal /\ UNCHANGED <<prev, rpa, gpu>>
    \/ ExitLocal /\ UNCHANGED <<prev, rpa, gpu>>
    \/ Multiply /\ prev' = Remember /\ UNCHANGED <<rpa, gpu>>
    \/ Enter /\ UNCHANGED <<prev, rpa, gpu>>
    \/ LoopStep /\ UNCHANGED <<prev, rpa, gpu>>
    \/ Finish /\ UNCHANGED <<prev, rpa, gpu>>

SpecDet == Init /\ [][NextDet]_vars

----------------------------------------------------------------------------
\* RPA special points of a short Weierstrass curve y^2 = x^3 + a*x + b over
\* the field of p elements.

RECURSIVE PowMod(_, _, _)
PowMod(v, e, p) == IF e = 0 THEN 1 % p ELSE (v * PowMod(v, e - 1, p)) % p

IsPrime(q) == q > 1 /\ \A d \in 2..(q - 1) : q % d # 0

\* The fields: the primes a short Weierstrass form exists for.
Primes == {q \in 5..MaxPrime : IsPrime(q)}

\* The curves: the nonsingular ones, 4a^3 + 27b^2 # 0.
Curves ==
    {cv \in [p : Primes, a : 0..(MaxPrime - 1), b : 0..(MaxPrime - 1)] :
        /\ cv.a < cv.p
        /\ cv.b < cv.p
        /\ (4 * cv.a * cv.a * cv.a + 27 * cv.b * cv.b) % cv.p # 0}

\* x^3 + a*x + b
CurveRhs(cv, x) == (x * x * x + cv.a * x + cv.b) % cv.p

\* is_on_curve
OnCurve(cv, pt) == (pt.y * pt.y) % cv.p = CurveRhs(cv, pt.x)

\* the absence of a point: None
NoPoint == [x |-> -1, y |-> -1]

\* Mod.is_residue(), by Euler's criterion
IsResidue(v, p) == v = 0 \/ PowMod(v, (p - 1) \div 2, p) = 1

\* The square roots of the negated value.
SqrtsOfNegated(v, p) == {y \in 0..(p - 1) : (y * y + v) % p = 0}

\* Mod.sqrt(): either root
Sqrts(v, p) == {y \in 0..(p - 1) : (y * y) % p = v}

\* The roots of x^3 + a*x + b in the field.
Roots(cv) == {x \in 0..(cv.p - 1) : CurveRhs(cv, x) = 0}

\* rpa_point_0y: the results it can give, a point with x = 0 or None.
rpa_point_0y(cv) ==
    IF ~IsResidue(cv.b, cv.p) THEN {NoPoint}
    ELSE {[x |-> 0, y |-> y] : y \in Sqrts(cv.b, cv.p)}

\* rpa_point_x0: the results it can give, a point with y = 0 or None.
rpa_point_x0(cv) ==
    IF Roots(cv) = {} THEN {NoPoint}
    ELSE {[x |-> x, y |-> 0] : x \in Roots(cv)}

\* The 64-bit field of the test curve: an integer is its 16-bit limbs, the
\* lowest first, with a spare limb for the carry of a sum.
Limbs(h3, h2, h1, h0) == <<h0, h1, h2, h3, 0>>

RECURSIVE AddFrom(_, _, _, _)
AddFrom(x, y, j, carry) ==
    IF j > Len(x) THEN <<>>
    ELSE <<(x[j] + y[j] + carry) % 65536>>
            \o AddFrom(x, y, j + 1, (x[j] + y[j] + carry) \div 65536)

RECURSIVE SubFrom(_, _, _, _)
SubFrom(x, y, j, borrow) ==
    IF j > Len(x) THEN <<>>
    ELSE <<(x[j] - y[j] - borrow + 65536) % 65536>>
            \o SubFrom(x, y, j + 1, IF x[j] - y[j] - borrow < 0 THEN 1 ELSE 0)

RECURSIVE GeFrom(_, _, _)
GeFrom(x, y, j) ==
    IF j = 0 THEN TRUE
    ELSE IF x[j] # y[j] THEN x[j] > y[j]
    ELSE GeFrom(x, y, j - 1)

\* Mod.__add__
Reduce(t, p) == IF GeFrom(t, p, Len(t)) THEN SubFrom(t, p, 1, 0) ELSE t

AddMod(x, y, p) == Reduce(AddFrom(x, y, 1, 0), p)

BitOf(y, j) == (y[(j \div 16) + 1] \div Pow2(j % 16)) % 2

Double(x, p) == AddMod(x, x, p)

\* x * y, by doubling and adding from bit j of y down
RECURSIVE MulFrom(_, _, _, _, _)
MulFrom(x, y, p, j, acc) ==
    IF j < 0 THEN acc
    ELSE CHOOSE r \in {MulFrom(x, y, p, j - 1, step) :
                        step \in {IF BitOf(y, j) = 1 THEN AddMod(Double(acc, p), x, p)
                                  ELSE Double(acc, p)}} : TRUE

\* Mod.__mul__
MulMod(x, y, p) ==
    CHOOSE r \in {MulFrom(u, v, p, 63, Limbs(0, 0, 0, 0)) : u \in {x}, v \in {y}} : TRUE

\* The curve of the rpa_params fixture, and the two points its comments name.
TestCurve ==
    [p |-> Limbs(34258, 26004, 23119, 22145),
     a |-> Limbs(32709, 31553, 4201, 35776),
     b |-> Limbs(14097, 16037, 37296, 17703)]

TestPointY0 == [x |-> Limbs(18560, 48374, 8325, 10836), y |-> Limbs(0, 0, 0, 0)]

TestPointX0 == [x |-> Limbs(0, 0, 0, 0), y |-> Limbs(27629, 12629, 51629, 41060)]

\* is_on_curve, in the 64-bit field
OnTestCurve(pt) ==
    MulMod(pt.y, pt.y, TestCurve.p) =
        AddMod(AddMod(MulMod(MulMod(pt.x, pt.x, TestCurve.p), pt.x, TestCurve.p),
                      MulMod(TestCurve.a, pt.x, TestCurve.p), TestCurve.p),
               TestCurve.b, TestCurve.p)

\* The rpa_params fixture of a test: the domain parameters are built.
RpaParams ==
    /\ \E cv \in Curves : rpa' = [stage |-> "params", curve |-> cv, res |-> NoPoint]
    /\ UNCHANGED <<pc, mult, initialized, params, point, ctxStack, scalar, p0, p1, i,
                   ops, bitsSeen, opened, recorded, result, outcome, touched, prev, gpu>>

\* res = rpa_point_x0(rpa_params)
RpaPointX0 ==
    /\ rpa.stage # "none"
    /\ \E r \in rpa_point_x0(rpa.curve) :
          rpa' = [stage |-> "x0", curve |-> rpa.curve, res |-> r]
    /\ UNCHANGED <<pc, mult, initialized, params, point, ctxStack, scalar, p0, p1, i,
                   ops, bitsSeen, opened, recorded, result, outcome, touched, prev, gpu>>

\* res = rpa_point_0y(rpa_params)
RpaPoint0Y ==
    /\ rpa.stage # "none"
    /\ \E r \in rpa_point_0y(rpa.curve) :
          rpa' = [stage |-> "0y", curve |-> rpa.curve, res |-> r]
    /\ UNCHANGED <<pc, mult, initialized, params, point, ctxStack, scalar, p0, p1, i,
                   ops, bitsSeen, opened, recorded, result, outcome, touched, prev, gpu>>

NextRpa ==
    \/ RpaParams
    \/ RpaPointX0
    \/ RpaPoint0Y

SpecRpa == Init /\ [][NextRpa]_vars

----------------------------------------------------------------------------
\* The GPU kernels over stacked samples (stacked_traces.py, correlate.py).
\* A launch is a grid of bpg * tpb threads; thread t has cuda.grid(1) = t.
\* Values are integers: a division is the floor of the quotient, a square
\* root the floor of the root.

\* if tpb % 32 != 0
WarpSize == 32

Kernels == {"gpu_average", "gpu_std_dev", "_gpu_pearson_corr"}

\* The threads-per-block values a caller passes.
TpbValues == {0, 16, 32, 48, 64}

\* samples[row, col]
Sample(row, col) == 1 + (((row + 1) * (col + 2)) % 5)

\* intermediate_values[row]
Intermediate(row) == (row * row + 1) % 4

\* for row in range(n): acc += f(row)
RECURSIVE SumRows(_, _)
SumRows(f, n) == IF n = 0 THEN 0 ELSE SumRows(f, n - 1) + f[n - 1]

\* sqrt
Isqrt(v) == CHOOSE r \in 0..v : r * r <= v /\ v < (r + 1) * (r + 1)

\* _gpu_average: acc / samples.shape[0]
Average(n, col) == SumRows([row \in 0..(n - 1) |-> Sample(row, col)], n) \div n

\* _gpu_var_from_avg, with the value read from averages[col]
VarFromAvg(n, col, avg) ==
    SumRows([row \in 0..(n - 1) |-> (Sample(row, col) - avg) * (Sample(row, col) - avg)], n)
        \div n

\* _gpu_pearson_corr: the numerator and the square of the denominator
PearsonCorr(n, col) ==
    LET samples_sum == SumRows([row \in 0..(n - 1) |-> Sample(row, col)], n)
        samples_sq_sum == SumRows([row \in 0..(n - 1) |-> Sample(row, col) * Sample(row, col)], n)
        product_sum == SumRows([row \in 0..(n - 1) |-> Sample(row, col) * Intermediate(row)], n)
        intermed_sum == SumRows([row \in 0..(n - 1) |-> Intermediate(row)], n)
        intermed_sq_sum == SumRows([row \in 0..(n - 1) |-> Intermediate(row) * Intermediate(row)], n)
    IN  [num |-> n * product_sum - samples_sum * intermed_sum,
         den2 |-> (n * samples_sq_sum - samples_sum * samples_sum)
                    * (n * intermed_sq_sum - intermed_sum * intermed_sum)]

\* What a kernel leaves in result[col] when it runs alone.
Sequential(kernel, n, col) ==
    IF kernel = "gpu_average" THEN Average(n, col)
    ELSE IF kernel = "gpu_std_dev" THEN Isqrt(VarFromAvg(n, col, Average(n, col)))
    ELSE PearsonCorr(n, col)

\* a cell of cuda.device_array that no thread has written
Unwritten == -1

\* bpg = (samples.size + (tpb - 1)) // tpb
Bpg(n, m, tpb) == (n * m + (tpb - 1)) \div tpb

\* col = cuda.grid(1)
Col(t) == t

\* if col >= samples.shape[1]: return
OutOfRange(t, m) == Col(t) >= m

\* GPUTraceManager.setup and the launch of the kernel on its grid.
GpuLaunch ==
    /\ gpu.stage \in {"none", "error", "done"}
    /\ \E kernel \in Kernels, n \in {1, 2, MaxRows}, m \in 1..MaxCols, tpb \in TpbValues :
          gpu' = IF tpb % WarpSize # 0
                 THEN [stage |-> "error", outcome |-> "ValueError", kernel |-> kernel,
                       n |-> n, m |-> m, tpb |-> tpb]
                 ELSE IF tpb = 0
                 THEN [stage |-> "error", outcome |-> "ZeroDivisionError", kernel |-> kernel,
                       n |-> n, m |-> m, tpb |-> tpb]
                 ELSE [stage |-> "launched", outcome |-> "none", kernel |-> kernel,
                       n |-> n, m |-> m, tpb |-> tpb, bpg |-> Bpg(n, m, tpb),
                       threads |-> Bpg(n, m, tpb) * tpb,
                       at |-> [t \in {u \in 0..(Bpg(n, m, tpb) * tpb - 1) : ~OutOfRange(u, m)}
                                 |-> "start"],
                       returned |-> 0,
                       result |-> [c \in 0..(m - 1) |-> Unwritten],
                       writers |-> [c \in 0..(m - 1) |-> {}],
                       readers |-> [c \in 0..(m - 1) |-> {}]]
    /\ UNCHANGED <<pc, mult, initialized, params, point, ctxStack, scalar, p0, p1, i,
                   ops, bitsSeen, opened, recorded, result, outcome, touched, prev, rpa>>

\* A thread whose index is past the last column returns at the test of col.
ThreadReturns ==
    /\ gpu.stage = "launched"
    /\ gpu.returned < Cardinality({t \in 0..(gpu.threads - 1) : OutOfRange(t, gpu.m)})
    /\ gpu' = [gpu EXCEPT !.returned = @ + 1]
    /\ UNCHANGED <<pc, mult, initialized, params, point, ctxStack, scalar, p0, p1, i,
                   ops, bitsSeen, opened, recorded, result, outcome, touched, prev, rpa>>

\* result[col] = value, by thread t
Write(g, t, value, to) ==
    [g EXCEPT !.result[Col(t)] = value,
              !.writers[Col(t)] = @ \cup {t},
              !.at[t] = to]

\* _gpu_average(col, samples, result), or the whole of _gpu_pearson_corr
ThreadFirstWrite(t) ==
    /\ gpu.stage = "launched"
    /\ t \in DOMAIN gpu.at
    /\ gpu.at[t] = "start"
    /\ gpu' = IF gpu.kernel = "gpu_average"
              THEN Write(gpu, t, Average(gpu.n, Col(t)), "done")
              ELSE IF gpu.kernel = "gpu_std_dev"
              THEN Write(gpu, t, Average(gpu.n, Col(t)), "average")
              ELSE Write(gpu, t, PearsonCorr(gpu.n, Col(t)), "done")
    /\ UNCHANGED <<pc, mult, initialized, params, point, ctxStack, scalar, p0, p1, i,
                   ops, bitsSeen, opened, recorded, result, outcome, touched, prev, rpa>>

\* _gpu_var_from_avg(col, samples, result, result): reads averages[col]
ThreadVariance(t) ==
    /\ gpu.stage = "launched"
    /\ t \in DOMAIN gpu.at
    /\ gpu.at[t] = "average"
    /\ gpu' = [Write(gpu, t, VarFromAvg(gpu.n, Col(t), gpu.result[Col(t)]), "variance")
                 EXCEPT !.readers[Col(t)] = @ \cup {t}]
    /\ UNCHANGED <<pc, mult, initialized, params, point, ctxStack, scalar, p0, p1, i,
                   ops, bitsSeen, opened, recorded, result, outcome, touched, prev, rpa>>

\* result[col] = sqrt(result[col])
ThreadSqrt(t) ==
    /\ gpu.stage = "launched"
    /\ t \in DOMAIN gpu.at
    /\ gpu.at[t] = "variance"
    /\ gpu' = [Write(gpu, t, Isqrt(gpu.result[Col(t)]), "done")
                 EXCEPT !.readers[Col(t)] = @ \cup {t}]
    /\ UNCHANGED <<pc, mult, initialized, params, point, ctxStack, scalar, p0, p1, i,
                   ops, bitsSeen, opened, recorded, result, outcome, touched, prev, rpa>>

\* device_output.copy_to_host(), once every thread of the grid has ended
CopyToHost ==
    /\ gpu.stage = "launched"
    /\ \A t \in DOMAIN gpu.at : gpu.at[t] = "done"
    /\ gpu.returned = gpu.threads - Cardinality(DOMAIN gpu.at)
    /\ gpu' = [gpu EXCEPT !.stage = "done", !.outcome = "returned"]
    /\ UNCHANGED <<pc, mult, initialized, params, point, ctxStack, scalar, p0, p1, i,
                   ops, bitsSeen, opened, recorded, result, outcome, touched, prev, rpa>>

NextGpu ==
    \/ GpuLaunch
    \/ ThreadReturns
    \/ \E t \in 0..(MaxCols - 1) : ThreadFirstWrite(t)
    \/ \E t \in 0..(MaxCols - 1) : ThreadVariance(t)
    \/ \E t \in 0..(MaxCols - 1) : ThreadSqrt(t)
    \/ CopyToHost

SpecGpu == Init /\ [][NextGpu]_vars

----------------------------------------------------------------------------
\* The claims.

Returned == pc = "idle" /\ outcome = "returned"

Ended == pc = "idle" /\ outcome \in {"returned", "raised"}

\* The multipliers that can be constructed in complete mode from complete formulas.
CompleteMultipliers ==
    {[kind |-> kd, formulas |-> f, complete |-> TRUE, short_circuit |-> sc,
      fcomplete |-> TRUE] :
        <<kd, f, sc>> \in {t \in UNION {{<<kd, f, sc>> : f \in FormulaSets(kd), sc \in BOOLEAN} :
                                        kd \in Kinds} :
                             ~CtorRaises(t[1], t[2], TRUE, t[3])}}

\* C1: with complete formulas and complete=True, multiply(k) for k in [0, order)
\* returns, its result is k*P, and every complete-mode multiplier of the three
\* kinds init-ed with the same parameters and P returns an affine-equal point.
C1_CrossAgreement ==
    (Ended /\ mult.complete /\ mult.fcomplete /\ scalar < params.order) =>
        /\ outcome = "returned"
        /\ IsPoint(result)
        /\ result.v = Times(scalar, point, params.order)
        /\ \A other \in CompleteMultipliers :
              AffineEq(result, MultiplyResult(other, params.order, point, scalar))

C1_Witness ==
    /\ Returned
    /\ mult.kind = "DifferentialLadderMultiplier"
    /\ mult.complete /\ mult.fcomplete
    /\ params.order = 5 /\ point.v = 2 /\ scalar = 3
    /\ result.v = 1

\* C2: in all three multipliers and both modes, p1 - p0 = P at loop entry and
\* after every iteration, whichever branch the iteration took.
C2_LadderInvariant ==
    pc = "loop" =>
        /\ IsPoint(p0)
        /\ IsPoint(p1)
        /\ (p1.v - p0.v) % params.order = point.v

C2_Witness ==
    /\ pc = "loop"
    /\ mult.kind = "LadderMultiplier" /\ ~mult.complete
    /\ scalar = 5 /\ params.order = 5 /\ point.v = 3
    /\ Len(bitsSeen) = 2
    /\ p0.v = 0 /\ p1.v = 3

\* C3: multiply(0) on an initialised multiplier, whatever complete and
\* short_circuit are, returns a copy of the neutral point, invokes no formula,
\* and reports exactly one result, the neutral point, to the one scope it opened.
C3_ZeroScalarLaw ==
    (Ended /\ scalar = 0) =>
        /\ outcome = "returned"
        /\ result = Neutral
        /\ ops = <<>>
        /\ opened = 1
        /\ recorded = <<Neutral>>

C3_Witness ==
    /\ Returned
    /\ scalar = 0
    /\ ~mult.short_circuit /\ ~mult.complete
    /\ point.v # 0
    /\ recorded = <<Neutral>>

\* C4: multiply on a multiplier that was never init-ed fails with ValueError for
\* every scalar: no scope is opened, no formula is invoked, nothing is returned,
\* and the multiplier stays uninitialised.
C4_FailsBeforeInit ==
    /\ (pc \in {"idle", "entered", "loop"} /\ ~initialized) =>
          /\ pc = "idle"
          /\ outcome \in {"none", "ValueError"}
          /\ opened = 0
          /\ ops = <<>>
          /\ recorded = <<>>
          /\ result = None
          /\ \A j \in 1..Len(ctxStack) : ctxStack[j] # Scope
    /\ (pc = "idle" /\ outcome = "ValueError") => ~initialized

C4_Witness ==
    /\ pc = "idle"
    /\ outcome = "ValueError"
    /\ scalar = 0
    /\ ~initialized
    /\ ctxStack = <<Outer>>

InCall == pc \in {"entered", "loop"}

ScopesOpen(stack) == Cardinality({j \in 1..Len(stack) : stack[j] = Scope})

ScopeState ==
    /\ InCall => /\ ScopesOpen(ctxStack) = 1
                 /\ ctxStack[Len(ctxStack)] = Scope
                 /\ opened = 1
    /\ ~InCall => /\ ScopesOpen(ctxStack) = 0
                  /\ opened \in {0, 1}

ScopeStep ==
    /\ (~InCall /\ InCall') => ctxStack' = Append(ctxStack, Scope)
    /\ (InCall /\ InCall') => ctxStack' = ctxStack
    /\ (InCall /\ ~InCall') => /\ ctxStack = Append(ctxStack', Scope)
                               /\ outcome' \in {"returned", "raised"}

\* C5: every multiply call on an initialised multiplier opens exactly one scope,
\* which is the innermost one while the call runs and only then; every way out of
\* the call (the exit for scalar 0, the return after the loop, a formula that
\* raises) closes it and leaves the scopes around it as they were, so no scope
\* is open between calls.
C5_ScopeDiscipline == [](ScopeState) /\ [][ScopeStep]_vars

C5_Witness ==
    /\ pc = "idle"
    /\ outcome = "raised"
    /\ Len(bitsSeen) >= 2
    /\ opened = 1
    /\ ctxStack = <<Outer>>

\* The formulas one iteration invokes.
LoopPattern(kind) ==
    IF kind = "LadderMultiplier" THEN <<"ladd">>
    ELSE IF kind = "SimpleLadderMultiplier" THEN <<"add", "dbl">>
    ELSE <<"dadd", "dbl">>

RECURSIVE Repeat(_, _)
Repeat(s, c) == IF c <= 0 THEN <<>> ELSE s \o Repeat(s, c - 1)

\* The formulas invoked before the loop and after it.
BeforeLoop(m) ==
    IF m.kind = "LadderMultiplier" /\ ~m.complete THEN <<"dbl">> ELSE <<>>

AfterLoop(m) == IF "scl" \in m.formulas THEN <<"scl">> ELSE <<>>

C7_Original ==
    (Returned /\ mult.complete /\ scalar # 0) =>
        Len(bitsSeen) = bit_length(params.order) - 1

\* C7, amended: in complete mode the loop of a call with a nonzero scalar that
\* returns runs order.bit_length() iterations, whatever the scalar's bit length.
C7_CompleteIterations ==
    (Returned /\ mult.complete /\ scalar # 0) =>
        Len(bitsSeen) = bit_length(params.order)

C7_Witness ==
    /\ Returned
    /\ mult.complete
    /\ scalar = 1
    /\ params.order = 5
    /\ Len(bitsSeen) = 3

\* C8 as stated: in incomplete mode the loop runs k.bit_length() - 1 iterations
\* (SimpleLadderMultiplier, DifferentialLadderMultiplier), k.bit_length() - 2
\* (LadderMultiplier).
C8_Original ==
    (Returned /\ ~mult.complete /\ scalar >= 1) =>
        Len(bitsSeen) = IF mult.kind = "LadderMultiplier"
                        THEN bit_length(scalar) - 2
                        ELSE bit_length(scalar) - 1

\* C8, amended: in incomplete mode the loop of a call with scalar k >= 1 that
\* returns runs k.bit_length() iterations (SimpleLadderMultiplier,
\* DifferentialLadderMultiplier), k.bit_length() - 1 (LadderMultiplier).
C8_IncompleteIterations ==
    (Returned /\ ~mult.complete /\ scalar >= 1) =>
        Len(bitsSeen) = IF mult.kind = "LadderMultiplier"
                        THEN bit_length(scalar) - 1
                        ELSE bit_length(scalar)

C8_Witness ==
    /\ Returned
    /\ ~mult.complete
    /\ mult.kind = "LadderMultiplier"
    /\ scalar = 1
    /\ point.v # 0
    /\ bitsSeen = <<>>
    /\ AffineEq(result, point)

\* The top index the specification gives.
ClaimedTop(m, n, k) ==
    IF m.complete THEN bit_length(n) - 1
    ELSE IF m.kind = "LadderMultiplier" THEN bit_length(k) - 2
    ELSE bit_length(k) - 1

\* hi, hi - 1, ..., lo
Descending(hi, lo) == [j \in 1..(hi - lo + 1) |-> hi - j + 1]

\* C9: a call with a nonzero scalar examines the bits at top, top - 1, ..., 0,
\* each once and in this order.
C9_BitOrder ==
    /\ pc = "loop" =>
          /\ i >= -1
          /\ bitsSeen = Descending(ClaimedTop(mult, params.order, scalar), i + 1)
    /\ (Returned /\ scalar # 0) =>
          bitsSeen = Descending(ClaimedTop(mult, params.order, scalar), 0)

C9_Witness ==
    /\ Returned
    /\ mult.kind = "SimpleLadderMultiplier"
    /\ ~mult.complete
    /\ scalar = 6
    /\ bitsSeen = <<2, 1, 0>>

\* C10 as stated: without short_circuit, multiply(0) runs the loop as a nonzero
\* scalar does in the same mode.
C10_Original ==
    (Returned /\ scalar = 0 /\ ~mult.short_circuit /\ mult.complete) =>
        ops = Repeat(LoopPattern(mult.kind), bit_length(params.order))
                \o AfterLoop(mult)

\* C10, amended: the loop is skipped for scalar 0 whatever short_circuit is: it is
\* entered with a nonzero scalar only, and a call with scalar 0 examines no bit.
C10_ZeroExitUnconditional ==
    /\ pc = "loop" => scalar # 0
    /\ (Ended /\ scalar = 0) => (bitsSeen = <<>> /\ i = 0)

C10_Witness ==
    /\ Returned
    /\ scalar = 0
    /\ ~mult.short_circuit
    /\ mult.complete
    /\ mult.kind = "LadderMultiplier"
    /\ bitsSeen = <<>>

\* The call before this one was made with the same parameters, point and scalar.
SameCallAsBefore ==
    /\ prev.outcome # "none"
    /\ prev.order = params.order
    /\ prev.point = point
    /\ prev.scalar = scalar

DetSame ==
    (Ended /\ SameCallAsBefore) =>
        /\ prev.outcome = outcome
        /\ prev.result = result
        /\ prev.ops = ops
        /\ prev.touched = touched
        /\ prev.recorded = recorded

BoundKept ==
    (InCall \/ InCall') =>
        /\ mult' = mult
        /\ params' = params
        /\ point' = point
        /\ initialized' = initialized

\* C11: a multiply call leaves the multiplier's formulas, flags, parameters and
\* point as they were, and a call made with the parameters, point and scalar of
\* the call before it ends the same way: the same point returned, the same
\* formulas invoked in the same order, producing the same points, the same
\* results recorded.
C11_Determinism == [](DetSame) /\ [][BoundKept]_vars

C11_Witness ==
    /\ Returned
    /\ SameCallAsBefore
    /\ prev.outcome = "returned"
    /\ scalar = 5
    /\ point.v # 0
    /\ Len(touched) >= 4
    /\ prev.touched = touched
    /\ prev.result = result

\* C14: the construction of a LadderMultiplier fails exactly when no doubling
\* formula is given and (complete is False or short_circuit is True); so a
\* multiplier that exists invokes only formulas it was given (the dbl of the
\* incomplete entry among them), and one given the ladder formula alone has
\* complete=True and short_circuit=False.
C14_CtorGuard ==
    /\ (pc # "new" /\ mult.kind = "LadderMultiplier") =>
          (pc = "ctor_error" <=>
              ("dbl" \notin mult.formulas /\ (~mult.complete \/ mult.short_circuit)))
    /\ pc \in {"idle", "entered", "loop"} =>
          /\ \A j \in 1..Len(ops) : ops[j] \in mult.formulas
          /\ (mult.kind = "LadderMultiplier" /\ ~mult.complete) =>
                "dbl" \in mult.formulas
          /\ mult.formulas = {"ladd"} => (mult.complete /\ ~mult.short_circuit)

C14_Witness ==
    /\ pc = "ctor_error"
    /\ outcome = "ValueError"
    /\ mult.kind = "LadderMultiplier"
    /\ mult.complete
    /\ mult.short_circuit
    /\ mult.formulas = {"ladd", "scl"}

\* C15: in incomplete mode, for every scalar k >= 1 (beyond the order too), a
\* call that returns returns k*P, and with complete formulas every call returns;
\* LadderMultiplier enters its loop with (p0, p1) = (P, 2P) and for k = 1 returns
\* P without an iteration.
C15_IncompleteCorrect ==
    /\ (Ended /\ ~mult.complete /\ mult.fcomplete /\ scalar >= 1) =>
          outcome = "returned"
    /\ (Returned /\ ~mult.complete /\ scalar >= 1) =>
          /\ IsPoint(result)
          /\ result.v = Times(scalar, point, params.order)
    /\ (pc = "loop" /\ ~mult.complete /\ mult.kind = "LadderMultiplier"
          /\ bitsSeen = <<>>) =>
          /\ p0.v = point.v
          /\ p1.v = (2 * point.v) % params.order
    /\ (Returned /\ ~mult.complete /\ mult.kind = "LadderMultiplier" /\ scalar = 1) =>
          /\ bitsSeen = <<>>
          /\ AffineEq(result, point)

C15_Witness ==
    /\ Returned
    /\ ~mult.complete
    /\ mult.kind = "LadderMultiplier"
    /\ scalar = 9
    /\ params.order = 5
    /\ point.v = 2
    /\ result.v = 3

\* C16: in complete mode a call with a nonzero scalar k reads the bits 0..L-1 of
\* k, L = order.bit_length(): a call that returns returns (k mod 2^L)*P, which is
\* k*P for k < 2^L, and with complete formulas every call returns.
C16_CompleteTruncation ==
    /\ (Ended /\ mult.complete /\ mult.fcomplete /\ scalar # 0) =>
          outcome = "returned"
    /\ (Returned /\ mult.complete /\ scalar # 0) =>
          /\ IsPoint(result)
          /\ result.v = Times(scalar % Pow2(bit_length(params.order)), point,
                              params.order)
          /\ scalar < Pow2(bit_length(params.order)) =>
                result.v = Times(scalar, point, params.order)

\* A scalar with a bit at index L: the result is not k*P.
C16_Witness ==
    /\ Returned
    /\ mult.complete
    /\ scalar = 8
    /\ params.order = 5
    /\ point.v = 1
    /\ result.v = 0
    /\ result.v # Times(scalar, point, params.order)

\* The multiplier that differs from m in its scaling formula alone.
SclTwin(m) ==
    [m EXCEPT !.formulas = IF "scl" \in m.formulas THEN m.formulas \ {"scl"}
                           ELSE m.formulas \cup {"scl"}]

\* The classes the point with a zero coordinate can be: the oracle is asked
\* about a point whose multiple is the special point, not the special point.
RpaClasses == (1..(params.order - 1)) \ {point.v}

PointsX0(cv) == {pt \in [x : {0}, y : 0..(cv.p - 1)] : OnCurve(cv, pt)}

PointsY0(cv) == {pt \in [x : 0..(cv.p - 1), y : {0}] : OnCurve(cv, pt)}

\* The test curve has a point with y = 0 and a point with x = 0, the two its
\* fixture names, each with its other coordinate nonzero.
TestCurveHasRpaPoints ==
    /\ OnTestCurve(TestPointY0)
    /\ TestPointY0.x # Limbs(0, 0, 0, 0)
    /\ OnTestCurve(TestPointX0)
    /\ TestPointX0.y # Limbs(0, 0, 0, 0)

ColumnCoverage ==
    /\ gpu.stage \in {"launched", "done"}
    /\ gpu.bpg * gpu.tpb >= gpu.m
    /\ \A c \in 0..(gpu.m - 1) :
          /\ gpu.writers[c] \subseteq {c}
          /\ gpu.readers[c] \subseteq {c}
    /\ gpu.stage = "done" =>
          \A c \in 0..(gpu.m - 1) :
              /\ gpu.writers[c] = {c}
              /\ gpu.result[c] = Sequential(gpu.kernel, gpu.n, c)

\* C17: a tpb that is not a multiple of 32 is rejected with ValueError; for a
\* tpb that is a multiple of 32 the grid is launched and every column is
\* covered, whatever the interleaving of the threads.
C17_Original ==
    gpu.stage # "none" =>
        IF gpu.tpb % WarpSize # 0 THEN gpu.outcome = "ValueError"
        ELSE ColumnCoverage

====
